---- MODULE Spec2Model ----
(***************************************************************************)
(* Model of proxy/ssh/client.go: the SSH outbound Client.                  *)
(*                                                                         *)
(*   Client.Process  - lazy, lock-guarded creation of the shared           *)
(*                     *ssh.Client, channel open, bidirectional relay      *)
(*   Client.connect  - raw dial with retry, SSH handshake, publication     *)
(*   watcher         - the goroutine of Process that waits for the         *)
(*                     transport's end and clears Client.client            *)
(*   Client.Close    - closes the shared transport if one is published     *)
(*                                                                         *)
(* The dialer, the SSH library and the peer are the environment: a raw     *)
(* dial, a handshake and a channel open each succeed or fail               *)
(* nondeterministically and a live transport can die at any time.          *)
(* The unsynchronised reads of Client.client (Process line 119 and Close   *)
(* line 194) race with the locked writes; a pointer-sized read yields the  *)
(* value before or the value after the write, which is what the            *)
(* interleaving of the atomic steps below produces.                        *)
(***************************************************************************)
EXTENDS Integers, Sequences, FiniteSets, TLC

\* ------------------------------------------------------------- bounds
NumProcs == 2
MaxTransports == 2
MaxCloses == 2
MaxBytes == 1
MaxLines == 2
NumHostKeys == 3
ConnectionIdle == 3
UplinkOnly == 2
DownlinkOnly == 1

\* ---------------------------------------------------- program constants
\* retry.ExponentialBackoff(2, 100)
RetryCount_One == 2 - 1
RetryCount == 2
BaseDelay_Double == 2 * 100
BaseDelay == 100

Procs == 1..NumProcs
\* The calls whose relay is followed step by step in SpecRelay: the relay
\* state of a call is its own, so one call is followed.
Sessions == {1}
\* The calls followed under fair scheduling in SpecFair: one that creates
\* the transport Close closes and one issued afterwards.
Callers == {1, 2}
Transports == 1..MaxTransports
HostKeys == 1..NumHostKeys
Targets == {"tcp", "udp", "invalid"}
AcquireErrors == {"connect", "ssh"}

Free == <<"free", 0>>
ByProc(p) == <<"proc", p>>
ByWatcher(t) == <<"watch", t>>

VARIABLES
    client,      \* Client.client: 0 is nil, t > 0 the published transport
    mutex,       \* Client's sync.Mutex: Free, or who locked it
    pc,          \* position of each Process call
    sc,          \* the local sc of each Process call
    target,      \* outbound.Target of each call: tcp, udp or invalid
    result,      \* what each Process call returned
    fastNil,     \* the call read nil at line 119 and took the locked path
    dialLog,     \* outcomes of the raw dial attempts of the call's connect
    slept,       \* the delays slept between those attempts (ms)
    handshakes,  \* number of SSH handshakes attempted so far
    chan,        \* transport the call's logical channel is open on, 0 none
    created,     \* number of *ssh.Client values made so far
    handshaken,  \* transports whose handshake succeeded
    alive,       \* transports whose connection is open
    connects,    \* number of calls of Client.connect (dial sequences)
    wpc,         \* position of the watcher goroutine of each transport
    deadAtStart, \* transports already dead when the call started
    clearedAtStart, \* transports whose watcher had cleared when it started
    cpc,         \* position of the Close call
    csc,         \* the local sc of Close
    closes,      \* number of Close calls made
    closeRes,    \* what the last Close returned
    closedBy,    \* transports that a Close call closed while alive
    tA,          \* task copying link.Reader -> channel
    tB,          \* task copying channel -> link.Writer
    tmo,         \* timeout the activity timer is armed with
    idle,        \* ticks since the last activity
    cancelled,   \* the sub-context of the session is cancelled
    cause,       \* cause of a relay error: io or canceled
    bytes,       \* buffers copied by the session's tasks
    spawned,     \* number of watcher goroutines started
    cleared,     \* number of times a watcher stored nil in Client.client
    cfg,         \* config.PublicKey as its lines
    keys,        \* the keys parsed by Init; <<>> is the nil slice
    initRes,     \* what Client.Init returned
    presented,   \* the host key the server presented last, 0 none
    verdict      \* what the host-key callback returned for it

mgrVars == <<client, mutex, pc, sc, target, result, fastNil, dialLog, slept,
             handshakes, chan, created, handshaken, alive, connects, wpc, deadAtStart,
             clearedAtStart>>
closeVars == <<cpc, csc, closes, closeRes, closedBy>>
relayVars == <<tA, tB, tmo, idle, cancelled, cause, bytes>>
watchVars == <<spawned, cleared>>
trustVars == <<cfg, keys, initRes, presented, verdict>>
vars == <<mgrVars, closeVars, relayVars, watchVars, trustVars>>

\* State of a new Client (lines 24-31): no transport, mutex free.
InitState ==
    /\ client = 0
    /\ mutex = Free
    /\ pc = [p \in Procs |-> "idle"]
    /\ sc = [p \in Procs |-> 0]
    /\ target = [p \in Procs |-> "tcp"]
    /\ result = [p \in Procs |-> "none"]
    /\ fastNil = [p \in Procs |-> FALSE]
    /\ dialLog = [p \in Procs |-> <<>>]
    /\ slept = [p \in Procs |-> <<>>]
    /\ handshakes = 0
    /\ chan = [p \in Procs |-> 0]
    /\ created = 0
    /\ handshaken = {}
    /\ alive = {}
    /\ connects = 0
    /\ wpc = [t \in Transports |-> "none"]
    /\ deadAtStart = [p \in Procs |-> {}]
    /\ clearedAtStart = [p \in Procs |-> {}]
    /\ cpc = "idle"
    /\ csc = 0
    /\ closes = 0
    /\ closeRes = "none"
    /\ closedBy = {}
    /\ tA = [p \in Procs |-> "none"]
    /\ tB = [p \in Procs |-> "none"]
    /\ tmo = [p \in Procs |-> 0]
    /\ idle = [p \in Procs |-> 0]
    /\ cancelled = [p \in Procs |-> FALSE]
    /\ cause = [p \in Procs |-> "none"]
    /\ bytes = [p \in Procs |-> 0]
    /\ spawned = 0
    /\ cleared = 0
    /\ keys = <<>>
    /\ presented = 0
    /\ verdict = "none"

\* State after construction with an empty config.PublicKey: Init has run.
Init ==
    /\ InitState
    /\ cfg = <<>>
    /\ initRes = "ok"

\* ------------------------------------------------------------ Process
\* line 110: outbound == nil || !outbound.Target.IsValid()
TargetValid(tg) == tg # "invalid"

\* line 115: network != net.Network_TCP is rejected
Supported_Any(tg) == TRUE
Supported(tg) == tg = "tcp"

\* Return of a Process call with error or success e: its locals are gone.
Return(p, e) ==
    /\ pc' = [pc EXCEPT ![p] = "done"]
    /\ result' = [result EXCEPT ![p] = e]
    /\ sc' = [sc EXCEPT ![p] = 0]
    /\ fastNil' = [fastNil EXCEPT ![p] = FALSE]
    /\ deadAtStart' = [deadAtStart EXCEPT ![p] = {}]
    /\ clearedAtStart' = [clearedAtStart EXCEPT ![p] = {}]

Goto(p, l) == pc' = [pc EXCEPT ![p] = l]

\* The call goes on: nothing is returned and its start record stays.
Continues == UNCHANGED <<result, fastNil, deadAtStart, clearedAtStart>>

\* lines 108-120: entry of Process, its two argument checks and the read
\* sc := c.client made without the lock.
Start(p, tg) ==
    /\ pc[p] = "idle"
    /\ target' = [target EXCEPT ![p] = tg]
    /\ IF ~TargetValid(tg) THEN Return(p, "target")
       ELSE IF ~Supported(tg) THEN Return(p, "unsupported")
       ELSE /\ sc' = [sc EXCEPT ![p] = client]
            /\ fastNil' = [fastNil EXCEPT ![p] = (client = 0)]
            /\ pc' = [pc EXCEPT ![p] = IF client = 0 THEN "lock" ELSE "dial"]
            /\ deadAtStart' = [deadAtStart EXCEPT ![p] = (1..created) \ alive]
            /\ clearedAtStart' =
                 [clearedAtStart EXCEPT
                    ![p] = {t \in Transports : wpc[t] = "done"}]
            /\ UNCHANGED result
    /\ UNCHANGED <<client, mutex, dialLog, slept, handshakes, chan, created,
                   handshaken, alive, connects, wpc>>
    /\ UNCHANGED <<closeVars, relayVars, trustVars, watchVars>>

\* sync.Mutex.Lock: whether a caller may take the mutex now.
CanLock_NoExclusion(m) == TRUE
CanLock(m) == m = Free

\* line 123: the re-check under the lock, c.client == nil
NeedConnect_NoRecheck(c) == TRUE
NeedConnect(c) == c = 0

\* lines 123-136: the go statement of the watcher stands in the branch that
\* connected (fresh), after the error return of line 126.
SpawnsWatcher_Always(fresh) == TRUE
SpawnsWatcher(fresh) == fresh

\* lines 121-124: c.Lock(); sc = c.client; if c.client == nil, enter connect.
LockRecheck(p) ==
    /\ pc[p] = "lock"
    /\ CanLock(mutex)
    /\ mutex' = ByProc(p)
    /\ sc' = [sc EXCEPT ![p] = client]
    /\ IF NeedConnect(client)
       THEN /\ Goto(p, "connect")
            /\ connects' = connects + 1
            /\ UNCHANGED spawned
       ELSE /\ Goto(p, "unlock")
            /\ spawned' = spawned + (IF SpawnsWatcher(FALSE) THEN 1 ELSE 0)
            /\ UNCHANGED connects
    /\ Continues
    /\ UNCHANGED <<client, target, dialLog, slept, handshakes, chan, created,
                   handshaken, alive, wpc>>
    /\ UNCHANGED <<closeVars, relayVars, trustVars, cleared>>

\* ------------------------------------------------------------ connect
\* retry.ExponentialBackoff(attempts, delay): the retry combinator.
MaxAttempts == RetryCount + 1

RECURSIVE Pow2(_)
Pow2(n) == IF n = 0 THEN 1 ELSE 2 * Pow2(n - 1)

\* Delay slept after the n-th failed attempt (n >= 1): base, doubling.
NextDelay(n) == BaseDelay * Pow2(n - 1)

\* lines 172-183: one attempt of dialer.Dial inside the retry loop; after the
\* last failed attempt connect returns the connect error and Process
\* returns it at line 126, with the mutex still locked.
RawDial(p, ok) ==
    /\ pc[p] = "connect"
    /\ Len(dialLog[p]) < MaxAttempts
    /\ dialLog' = [dialLog EXCEPT ![p] = Append(@, ok)]
    /\ IF ok
       THEN /\ Goto(p, "handshake")
            /\ Continues
            /\ UNCHANGED <<slept, sc>>
       ELSE IF Len(dialLog[p]) + 1 < MaxAttempts
       THEN /\ slept' = [slept EXCEPT ![p] = Append(@, NextDelay(Len(dialLog[p]) + 1))]
            /\ Continues
            /\ UNCHANGED <<pc, sc>>
       ELSE /\ Return(p, "connect")
            /\ UNCHANGED slept
    /\ UNCHANGED <<client, mutex, target, handshakes, chan, created, handshaken,
                   alive, connects, wpc>>
    /\ UNCHANGED <<closeVars, relayVars, trustVars, watchVars>>

\* lines 185-189: c.client = client is reached only when NewClientConn
\* returned no error.
Publishes_Always(ok) == TRUE
Publishes(ok) == ok

\* lines 184-190 and 125-138: ssh.NewClientConn on the raw connection.
\* On failure connect returns the ssh
\* error and Process returns it at line 126 (mutex still locked). On success
\* the new client is stored in c.client, the watcher goroutine is started and
\* sc is the new client.
Handshake(p, ok) ==
    /\ pc[p] = "handshake"
    /\ ok => created < MaxTransports
    /\ handshakes' = handshakes + 1
    /\ client' = IF Publishes(ok) THEN created + 1 ELSE client
    /\ IF ok
       THEN /\ created' = created + 1
            /\ UNCHANGED <<dialLog, slept>>
            /\ handshaken' = handshaken \cup {created + 1}
            /\ alive' = alive \cup {created + 1}
            /\ wpc' = [wpc EXCEPT ![created + 1] = "wait"]
            /\ spawned' = spawned + (IF SpawnsWatcher(TRUE) THEN 1 ELSE 0)
            /\ sc' = [sc EXCEPT ![p] = created + 1]
            /\ Goto(p, "unlock")
            /\ Continues
       ELSE /\ Return(p, "ssh")
            /\ dialLog' = [dialLog EXCEPT ![p] = <<>>]
            /\ slept' = [slept EXCEPT ![p] = <<>>]
            /\ UNCHANGED <<created, handshaken, alive, wpc, spawned>>
    /\ UNCHANGED <<mutex, target, chan, connects>>
    /\ UNCHANGED <<closeVars, relayVars, trustVars, cleared>>

\* line 139: c.Unlock(); what connect recorded of its dial attempts is over.
Unlock(p) ==
    /\ pc[p] = "unlock"
    /\ mutex' = Free
    /\ Goto(p, "dial")
    /\ dialLog' = [dialLog EXCEPT ![p] = <<>>]
    /\ slept' = [slept EXCEPT ![p] = <<>>]
    /\ Continues
    /\ UNCHANGED <<client, sc, target, handshakes, chan, created, handshaken,
                   alive, connects, wpc>>
    /\ UNCHANGED <<closeVars, relayVars, trustVars, watchVars>>

\* lines 142-145: sc.Dial("tcp", ...). A channel cannot be opened on a
\* transport whose connection is closed; on a live one it may still fail.
\* lines 143-145: what the return on a failed sc.Dial leaves in c.client.
ClientAfterDial_Invalidate(c, ok) == IF ok THEN c ELSE 0
ClientAfterDial(c, ok) == c

ChannelOpen(p, ok) ==
    /\ pc[p] = "dial"
    /\ ok => sc[p] \in alive
    /\ client' = ClientAfterDial(client, ok)
    /\ IF ok
       THEN /\ chan' = [chan EXCEPT ![p] = sc[p]]
            /\ Goto(p, "relay")
            /\ Continues
            /\ UNCHANGED sc
       ELSE /\ Return(p, "channel")
            /\ UNCHANGED chan
    /\ UNCHANGED <<mutex, target, dialLog, slept, handshakes, created,
                   handshaken, alive, connects, wpc>>
    /\ UNCHANGED <<closeVars, relayVars, trustVars, watchVars>>

\* lines 147-160 as one step: the relay ends with nil or "connection ends".
RelayEnd(p, e) ==
    /\ pc[p] = "relay"
    /\ Return(p, e)
    /\ UNCHANGED <<client, mutex, target, dialLog, slept, handshakes, chan,
                   created, handshaken, alive, connects, wpc>>
    /\ UNCHANGED <<closeVars, relayVars, trustVars, watchVars>>

\* ------------------------------------------------------------ watcher
\* lines 129-133: client.Wait() returns once the transport's connection
\* ended; then c.Lock().
\* line 133: the mutex after the watcher's c.Lock().
WatcherMutex_NoLock(m, t) == m
WatcherMutex(m, t) == ByWatcher(t)

WatcherLock(t) ==
    /\ wpc[t] = "wait"
    /\ t \notin alive
    /\ CanLock(mutex)
    /\ mutex' = WatcherMutex(mutex, t)
    /\ wpc' = [wpc EXCEPT ![t] = "clear"]
    /\ UNCHANGED <<client, pc, sc, target, result, fastNil, dialLog, slept,
                   handshakes, chan, created, handshaken, alive, connects,
                   deadAtStart, clearedAtStart>>
    /\ UNCHANGED <<closeVars, relayVars, trustVars, watchVars>>

\* line 134: what the watcher stores in c.client.
WatcherStore_Keep(c) == c
WatcherStore(c) == 0

\* lines 134-135: c.client = nil; c.Unlock()
WatcherClear(t) ==
    /\ wpc[t] = "clear"
    /\ client' = WatcherStore(client)
    /\ mutex' = Free
    /\ wpc' = [wpc EXCEPT ![t] = "done"]
    /\ cleared' = cleared + 1
    /\ UNCHANGED <<pc, sc, target, result, fastNil, dialLog, slept, handshakes,
                   chan, created, handshaken, alive, connects, deadAtStart,
                   clearedAtStart>>
    /\ UNCHANGED <<closeVars, relayVars, trustVars, spawned>>

\* The peer or the network ends the transport's connection.
Die(t) ==
    /\ t \in alive
    /\ alive' = alive \ {t}
    /\ UNCHANGED <<client, mutex, pc, sc, target, result, fastNil, dialLog, slept,
                   handshakes, chan, created, handshaken, connects, wpc,
                   deadAtStart, clearedAtStart>>
    /\ UNCHANGED <<closeVars, relayVars, trustVars, watchVars>>

\* -------------------------------------------------------------- Close
\* lines 194-195, 198: sc := c.client; without a transport Close returns nil.
CloseRead ==
    /\ cpc = "idle"
    /\ closes < MaxCloses
    /\ closes' = closes + 1
    /\ csc' = client
    /\ IF client = 0
       THEN /\ closeRes' = "nil"
            /\ UNCHANGED cpc
       ELSE /\ cpc' = "close"
            /\ closeRes' = "none"
    /\ UNCHANGED <<closedBy, mgrVars, relayVars, trustVars, watchVars>>

\* line 196: return sc.Close(). Closing a connection that is already closed
\* returns the connection's error.
\* line 196: sc.Close() ends the connection of the transport.
AliveAfterClose_Keep(al, t) == al
AliveAfterClose(al, t) == al \ {t}

\* lines 194-196: what Close leaves in c.client: it does not assign it.
CloseStore_Clear(c) == 0
CloseStore(c) == c

CloseTransport ==
    /\ cpc = "close"
    /\ cpc' = "idle"
    /\ client' = CloseStore(client)
    /\ csc' = 0
    /\ closeRes' = IF csc \in alive THEN "nil" ELSE "err"
    /\ alive' = AliveAfterClose(alive, csc)
    /\ closedBy' = IF csc \in alive THEN closedBy \cup {csc} ELSE closedBy
    /\ UNCHANGED <<mutex, pc, sc, target, result, fastNil, dialLog, slept,
                   handshakes, chan, created, handshaken, connects, wpc,
                   deadAtStart, clearedAtStart>>
    /\ UNCHANGED <<closes, relayVars, trustVars, watchVars>>

\* -------------------------------------------------------------- relay
\* lines 147-150: the cancellable sub-context, the activity timer armed with
\* the connection-idle timeout, and the two copy tasks handed to task.Run.
RelayStart(p) ==
    /\ pc[p] = "relay"
    /\ Goto(p, "run")
    /\ tA' = [tA EXCEPT ![p] = "run"]
    /\ tB' = [tB EXCEPT ![p] = "run"]
    /\ tmo' = [tmo EXCEPT ![p] = ConnectionIdle]
    /\ idle' = [idle EXCEPT ![p] = 0]
    /\ cancelled' = [cancelled EXCEPT ![p] = FALSE]
    /\ Continues
    /\ UNCHANGED <<client, mutex, sc, target, dialLog, slept, handshakes, chan,
                   created, handshaken, alive, connects, wpc>>
    /\ UNCHANGED <<closeVars, cause, bytes, trustVars, watchVars>>

\* lines 152, 155: buf.Copy moves one buffer in direction d ("A" is
\* link.Reader -> channel, "B" is channel -> link.Writer);
\* buf.UpdateActivity(timer) records the activity.
Transfer(p, d) ==
    /\ IF d = "A" THEN tA[p] = "run" ELSE tB[p] = "run"
    /\ bytes[p] < MaxBytes
    /\ bytes' = [bytes EXCEPT ![p] = @ + 1]
    /\ idle' = [idle EXCEPT ![p] = 0]
    /\ UNCHANGED <<trustVars, watchVars, mgrVars, closeVars, tA, tB, tmo, cancelled, cause>>

\* lines 151, 154: the timeout each task's deferred timer.SetTimeout sets.
TimeoutAfter_Swapped(d) == IF d = "A" THEN UplinkOnly ELSE DownlinkOnly
TimeoutAfter(d) == IF d = "A" THEN DownlinkOnly ELSE UplinkOnly

\* lines 151-152, 154-155: a copy task ends, cleanly (ok) or with an error,
\* and its deferred timer.SetTimeout rearms the timer.
TaskEnd(p, d, ok) ==
    /\ IF d = "A"
       THEN /\ tA[p] = "run"
            /\ tA' = [tA EXCEPT ![p] = IF ok THEN "ok" ELSE "err"]
            /\ UNCHANGED tB
       ELSE /\ tB[p] = "run"
            /\ tB' = [tB EXCEPT ![p] = IF ok THEN "ok" ELSE "err"]
            /\ UNCHANGED tA
    /\ tmo' = [tmo EXCEPT ![p] = TimeoutAfter(d)]
    /\ idle' = [idle EXCEPT ![p] = 0]
    /\ UNCHANGED <<trustVars, watchVars, mgrVars, closeVars, cancelled, cause, bytes>>

\* signal.CancelAfterInactivity: a unit of time passes without activity;
\* when the armed timeout has passed the timer calls cancel.
Tick(p) ==
    /\ tmo[p] > 0
    /\ ~cancelled[p]
    /\ idle[p] < tmo[p]
    /\ idle' = [idle EXCEPT ![p] = @ + 1]
    /\ cancelled' = [cancelled EXCEPT ![p] = (idle[p] + 1 >= tmo[p])]
    /\ UNCHANGED <<trustVars, watchVars, mgrVars, closeVars, tA, tB, tmo, cause, bytes>>

\* lines 147-150: the context task.Run waits on is the sub-context the
\* timer cancels.
RunCtxDone_Parent(p) == FALSE
RunCtxDone(p) == cancelled[p]

\* lines 156-160: an error of task.Run is wrapped as "connection ends" and
\* returned; without one Process returns nil.
ProcessResult_Swallow(c) == "ok"
ProcessResult(c) == IF c = "none" THEN "ok" ELSE "relay"

\* lines 150-160: task.Run returns: the error of a task, the context's
\* error once the context is done, or nil once both tasks ended cleanly.
\* Process wraps an error as "connection ends" (line 157), else returns nil.
RunReturn(p, c) ==
    /\ pc[p] = "run"
    /\ \/ c = "io" /\ (tA[p] = "err" \/ tB[p] = "err")
       \/ c = "canceled" /\ RunCtxDone(p)
       \/ c = "none" /\ tA[p] = "ok" /\ tB[p] = "ok"
    /\ Return(p, ProcessResult(c))
    /\ cause' = [cause EXCEPT ![p] = c]
    /\ UNCHANGED <<client, mutex, target, dialLog, slept, handshakes, chan,
                   created, handshaken, alive, connects, wpc>>
    /\ UNCHANGED <<closeVars, tA, tB, tmo, idle, cancelled, bytes, trustVars,
                   watchVars>>

\* --------------------------------------------------------- host trust
\* A line of config.PublicKey: blank, only white space, an authorized-key
\* line of key k (with or without a trailing comment), or unparseable text.
Lines ==
    {[kind |-> "blank", key |-> 0, comment |-> FALSE],
     [kind |-> "spaces", key |-> 0, comment |-> FALSE],
     [kind |-> "bad", key |-> 0, comment |-> FALSE]}
    \cup [kind : {"key"}, key : HostKeys, comment : BOOLEAN]

RECURSIVE SeqsUpTo(_, _)
SeqsUpTo(S, n) ==
    IF n = 0 THEN {<<>>}
    ELSE LET shorter == SeqsUpTo(S, n - 1)
         IN shorter \cup {Append(q, x) : q \in shorter, x \in S}

\* line 77: strings.TrimSpace
TrimSpace(l) ==
    IF l.kind = "spaces" THEN [kind |-> "blank", key |-> 0, comment |-> FALSE]
    ELSE l

\* line 81: ssh.ParseAuthorizedKey: the key of the line, without its
\* comment; 0 when the line does not parse.
ParseAuthorizedKey(l) == IF l.kind = "key" THEN l.key ELSE 0

\* key.Marshal(): the wire encoding of a key, its type name and its blob.
KeyType(k) == IF k % 2 = 1 THEN "ssh-ed25519" ELSE "ssh-rsa"
Marshal(k) == <<KeyType(k), k>>

\* lines 74-89: the loop over the lines of config.PublicKey.
RECURSIVE ParseKeys(_, _)
ParseKeys(lines, acc) ==
    IF lines = <<>> THEN [err |-> FALSE, keys |-> acc]
    ELSE LET str == TrimSpace(Head(lines))
         IN IF str.kind = "blank" THEN ParseKeys(Tail(lines), acc)
            ELSE IF ParseAuthorizedKey(str) = 0
            THEN [err |-> TRUE, keys |-> <<>>]
            ELSE ParseKeys(Tail(lines), Append(acc, ParseAuthorizedKey(str)))

\* lines 92-97: the loop of the callback over the allow-listed keys.
RECURSIVE MatchAny(_, _)
MatchAny(ks, key) ==
    IF ks = <<>> THEN FALSE
    ELSE IF Marshal(key) = Marshal(Head(ks)) THEN TRUE
    ELSE MatchAny(Tail(ks), key)

\* lines 90-104: the callback Init installs: with keys it accepts a key
\* that one of them matches, without keys (nil) it accepts every key.
HostKeyCallback_FirstOnly(ks, key) ==
    IF ks # <<>>
    THEN IF Marshal(key) = Marshal(Head(ks)) THEN "accept" ELSE "mismatch"
    ELSE "accept"
HostKeyCallback(ks, key) ==
    IF ks # <<>>
    THEN IF MatchAny(ks, key) THEN "accept" ELSE "mismatch"
    ELSE "accept"

\* lines 46-106: Client.Init, the part that reads config.PublicKey.
ClientInit ==
    /\ initRes = "none"
    /\ LET r == ParseKeys(cfg, <<>>)
       IN /\ initRes' = IF r.err THEN "error" ELSE "ok"
          /\ keys' = r.keys
    /\ UNCHANGED <<mgrVars, closeVars, relayVars, watchVars, cfg, presented,
                   verdict>>

\* lines 91-103: the SSH handshake calls c.hostKeyCallback with the key the
\* server presents.
HostKey(k) ==
    /\ initRes = "ok"
    /\ presented' = k
    /\ verdict' = HostKeyCallback(keys, k)
    /\ UNCHANGED <<mgrVars, closeVars, relayVars, watchVars, cfg, keys, initRes>>

\* ------------------------------------------------------ specification
Next ==
    \/ \E p \in Procs, tg \in Targets : Start(p, tg)
    \/ \E p \in Procs : LockRecheck(p)
    \/ \E p \in Procs, ok \in BOOLEAN : RawDial(p, ok)
    \/ \E p \in Procs, ok \in BOOLEAN : Handshake(p, ok)
    \/ \E p \in Procs : Unlock(p)
    \/ \E p \in Procs, ok \in BOOLEAN : ChannelOpen(p, ok)
    \/ \E p \in Procs, e \in {"ok", "relay"} : RelayEnd(p, e)
    \/ \E t \in Transports : WatcherLock(t)
    \/ \E t \in Transports : WatcherClear(t)
    \/ \E t \in Transports : Die(t)
    \/ CloseRead
    \/ CloseTransport

Spec == Init /\ [][Next]_vars

\* The Go scheduler runs a runnable watcher goroutine, and a Process call
\* that reached c.Unlock() executes it.
WatcherFairness ==
    /\ \A t \in Transports : WF_vars(WatcherLock(t)) /\ WF_vars(WatcherClear(t))
    /\ \A p \in Callers : WF_vars(Unlock(p))

\* The program with the calls of Callers, under that scheduling.
NextFair ==
    \/ \E p \in Callers, tg \in Targets : Start(p, tg)
    \/ \E p \in Callers : LockRecheck(p)
    \/ \E p \in Callers, ok \in BOOLEAN : RawDial(p, ok)
    \/ \E p \in Callers, ok \in BOOLEAN : Handshake(p, ok)
    \/ \E p \in Callers : Unlock(p)
    \/ \E p \in Callers, ok \in BOOLEAN : ChannelOpen(p, ok)
    \/ \E p \in Callers, e \in {"ok", "relay"} : RelayEnd(p, e)
    \/ \E t \in Transports : WatcherLock(t)
    \/ \E t \in Transports : WatcherClear(t)
    \/ \E t \in Transports : Die(t)
    \/ CloseRead
    \/ CloseTransport

SpecFair == Init /\ [][NextFair]_vars /\ WatcherFairness

\* The same program with the relay of lines 147-160 in its steps (timer,
\* copy tasks, task.Run), for the calls of Sessions.
NextRelay ==
    \/ \E p \in Sessions, tg \in Targets : Start(p, tg)
    \/ \E p \in Sessions : LockRecheck(p)
    \/ \E p \in Sessions, ok \in BOOLEAN : RawDial(p, ok)
    \/ \E p \in Sessions, ok \in BOOLEAN : Handshake(p, ok)
    \/ \E p \in Sessions : Unlock(p)
    \/ \E p \in Sessions, ok \in BOOLEAN : ChannelOpen(p, ok)
    \/ \E p \in Sessions : RelayStart(p)
    \/ \E p \in Sessions, d \in {"A", "B"} : Transfer(p, d)
    \/ \E p \in Sessions, d \in {"A", "B"}, ok \in BOOLEAN : TaskEnd(p, d, ok)
    \/ \E p \in Sessions : Tick(p)
    \/ \E p \in Sessions, c \in {"io", "canceled", "none"} : RunReturn(p, c)
    \/ \E t \in Transports : WatcherLock(t)
    \/ \E t \in Transports : WatcherClear(t)
    \/ \E t \in Transports : Die(t)
    \/ CloseRead
    \/ CloseTransport

\* Time passes and a runnable Process call is scheduled.
RelayFairness ==
    \A p \in Sessions :
        /\ WF_vars(Tick(p))
        /\ WF_vars(\E c \in {"io", "canceled", "none"} : RunReturn(p, c))

SpecRelay == Init /\ [][NextRelay]_vars /\ RelayFairness

\* Client.Init on every config.PublicKey of up to MaxLines lines, and the
\* callback it installs on every presented key.
InitTrust ==
    /\ InitState
    /\ cfg \in SeqsUpTo(Lines, MaxLines)
    /\ initRes = "none"

NextTrust ==
    \/ ClientInit
    \/ \E k \in HostKeys : HostKey(k)

SpecTrust == InitTrust /\ [][NextTrust]_vars

\* ------------------------------------------------------------- claims
NoAcquireFailure == \A p \in Procs : result[p] \notin AcquireErrors
NoDeath == alive = 1..created
Acquired(p) == pc[p] \in {"dial", "relay", "run"}

\* C1: as long as no acquisition failed and no transport died, the calls
\* that found no transport cause one connect (one dial sequence, one
\* handshake) in total, and every call that acquired a transport or opened
\* a channel did so on that one transport.
C1_SingleDialSequence ==
    (NoAcquireFailure /\ NoDeath) =>
        /\ connects <= 1 /\ handshakes <= 1 /\ created <= 1
        /\ \A p \in Procs :
            /\ Acquired(p) =>
                 sc[p] = 1 /\ connects = 1 /\ handshakes = 1 /\ created = 1
            /\ chan[p] # 0 => chan[p] = 1

\* Two calls that both read nil at line 119 relay over the one transport.
C1_Witness ==
    \E p, q \in Procs :
        /\ p # q /\ fastNil[p] /\ fastNil[q]
        /\ pc[p] = "relay" /\ pc[q] = "relay"
        /\ chan[p] = 1 /\ chan[q] = 1
        /\ connects = 1 /\ NoDeath /\ NoAcquireFailure

\* C2: a Process call that returned an acquisition error does not keep the
\* mutex, so that a later call finding no transport can lock it and dial
\* on its own instead of blocking forever.
C2_LockFreeAfterFailure ==
    \A p \in Procs :
        (pc[p] = "done" /\ result[p] \in AcquireErrors) => mutex # ByProc(p)

\* C3 as claimed: a call that starts after a transport died does not go to
\* sc.Dial with that dead transport.
C3_DeadNeverUsed ==
    \A p \in Procs : pc[p] = "dial" => sc[p] \notin deadAtStart[p]

\* C3 amended: a call that starts after the watcher cleared a dead transport
\* never holds that transport, and no channel is open on a transport that
\* was dead when its call started.
C3_ClearedNeverUsed ==
    \A p \in Procs :
        /\ sc[p] \notin clearedAtStart[p]
        /\ chan[p] # 0 => chan[p] \notin deadAtStart[p] \cup clearedAtStart[p]

\* A call started after the first transport was cleared holds a fresh, live
\* one.
C3_Witness ==
    \E p \in Procs :
        /\ pc[p] = "dial"
        /\ clearedAtStart[p] # {}
        /\ sc[p] \in alive

\* C4: at most one transport of the Client is alive, and it is the one
\* published in Client.client.
C4_AtMostOneLive ==
    /\ Cardinality(alive) <= 1
    /\ \A t \in alive : client = t

\* A second transport is alive after the first one died.
C4_Witness == created = 2 /\ alive = {2} /\ client = 2

AllFailed(log) == \A i \in 1..Len(log) : ~log[i]
SshErrors == {p \in Procs : result[p] = "ssh"}

\* C5: a connect whose every raw dial fails makes exactly 3 attempts and
\* returns the connect error; no handshake is made for it (every handshake
\* made is that of a created transport or of a returned ssh error).
C5_DialExhaustion ==
    /\ \A p \in Procs :
        /\ result[p] = "connect" => Len(dialLog[p]) = 3 /\ AllFailed(dialLog[p])
        /\ (AllFailed(dialLog[p]) /\ Len(dialLog[p]) >= 3) =>
             pc[p] = "done" /\ result[p] = "connect" /\ Len(dialLog[p]) = 3
        /\ (pc[p] = "connect") => AllFailed(dialLog[p]) /\ Len(dialLog[p]) < 3
    /\ handshakes = created + Cardinality(SshErrors)

\* A call returned the connect error after three failed dials.
C5_Witness ==
    \E p \in Procs :
        /\ result[p] = "connect"
        /\ dialLog[p] = <<FALSE, FALSE, FALSE>>
        /\ handshakes = 0

\* C6: a connect whose dial fails twice and then succeeds has slept 100 ms
\* and then 200 ms between its three attempts, goes on to the handshake
\* and, the handshake done, has published the transport it returns.
C6_RetryBackoff ==
    \A p \in Procs :
        /\ dialLog[p] = <<FALSE, FALSE, TRUE>> =>
            /\ slept[p] = <<100, 200>>
            /\ pc[p] \in {"handshake", "unlock"}
            /\ pc[p] = "unlock" => sc[p] # 0 /\ sc[p] = client /\ sc[p] \in alive \cup handshaken
        /\ \A i \in 1..Len(slept[p]) :
            /\ i = 1 => slept[p][i] = 100
            /\ i > 1 => slept[p][i] = 2 * slept[p][i - 1]
        /\ Len(dialLog[p]) <= 3

\* A connect succeeded on its third dial attempt.
C6_Witness ==
    \E p \in Procs :
        /\ pc[p] = "unlock"
        /\ dialLog[p] = <<FALSE, FALSE, TRUE>>
        /\ sc[p] = client

\* C7: Client.client only ever holds a transport whose handshake succeeded;
\* a connect makes at most one handshake; and when a call returns an
\* acquisition error Client.client is nil before and after.
C7_FailureLeavesAbsent ==
    /\ [](client # 0 => client \in handshaken)
    /\ [](handshakes <= connects)
    /\ [][\A p \in Procs :
            (result[p] = "none" /\ result'[p] \in AcquireErrors) =>
                (client = 0 /\ client' = 0 /\ created' = created)]_vars

\* A handshake failed and nothing is published.
C7_Witness ==
    \E p \in Procs : result[p] = "ssh" /\ client = 0 /\ handshakes = 1

\* C8: a call for a non-TCP target has returned the unsupported error at
\* once: it holds no transport, no channel and not the mutex, and its
\* start changed nothing of the Client, whether a transport was published
\* or not.
C8_UnsupportedNoEffect ==
    /\ [](\A p \in Procs :
            (target[p] = "udp" /\ pc[p] # "idle") =>
                /\ pc[p] = "done" /\ result[p] = "unsupported"
                /\ sc[p] = 0 /\ chan[p] = 0 /\ dialLog[p] = <<>>
                /\ mutex # ByProc(p))
    /\ [][\A p \in Procs :
            (pc[p] = "idle" /\ pc'[p] # "idle" /\ target'[p] = "udp") =>
                UNCHANGED <<client, mutex, connects, handshakes, created,
                            alive, chan, dialLog, wpc>>]_vars

\* A non-TCP call was rejected while a live transport was published.
C8_Witness ==
    \E p \in Procs :
        /\ target[p] = "udp" /\ result[p] = "unsupported"
        /\ client # 0 /\ client \in alive

\* C9: a running relay always comes to its return; a call that returns
\* while both copy tasks are still running (nothing ended in either
\* direction) returns the error of the sub-context the timer cancelled.
C9_IdleSessionReturns ==
    /\ \A p \in Procs : (pc[p] = "run") ~> (pc[p] = "done")
    /\ [](\A p \in Procs :
            (pc[p] = "done" /\ tA[p] = "run" /\ tB[p] = "run") =>
                result[p] = "relay" /\ cause[p] = "canceled" /\ cancelled[p])

\* A session without a byte was cancelled after the connection-idle timeout.
C9_Witness ==
    \E p \in Procs :
        /\ pc[p] = "done" /\ bytes[p] = 0
        /\ tA[p] = "run" /\ tB[p] = "run"
        /\ cause[p] = "canceled"
        /\ tmo[p] = ConnectionIdle /\ idle[p] = ConnectionIdle

\* C10: with only the link.Reader -> channel task ended the timer is armed
\* with the downlink-only timeout, with only the channel -> link.Writer
\* task ended with the uplink-only timeout; a session not yet cancelled
\* has been idle for less than the armed timeout; and a half-closed
\* session comes to its return.
C10_HalfClosedGrace ==
    /\ [](\A p \in Procs :
            /\ (tA[p] \in {"ok", "err"} /\ tB[p] = "run") => tmo[p] = DownlinkOnly
            /\ (tB[p] \in {"ok", "err"} /\ tA[p] = "run") => tmo[p] = UplinkOnly
            /\ (tA[p] = "run" /\ tB[p] = "run") => tmo[p] = ConnectionIdle
            /\ (tmo[p] > 0 /\ ~cancelled[p]) => idle[p] < tmo[p])
    /\ \A p \in Procs :
        (pc[p] = "run" /\ (tA[p] = "ok" \/ tB[p] = "ok")) ~> (pc[p] = "done")

\* The first task ended cleanly, the other stayed idle, and the call
\* returned after the downlink-only timeout.
C10_Witness ==
    \E p \in Procs :
        /\ pc[p] = "done" /\ cause[p] = "canceled"
        /\ tA[p] = "ok" /\ tB[p] = "run"
        /\ tmo[p] = DownlinkOnly /\ idle[p] = DownlinkOnly

Ended(x) == x \in {"ok", "err"}

\* C11: a call that returned nil from the relay had both copy tasks end
\* cleanly; a call returns "connection ends" exactly when task.Run gave an
\* error (a task's error or the cancelled sub-context's), and it does so
\* whenever a task had reported an error at its return; and a relay with
\* both tasks ended or its sub-context cancelled comes to its return.
C11_RelayOutcome ==
    /\ [](\A p \in Procs :
            /\ (pc[p] = "done" /\ result[p] = "ok") =>
                 tA[p] = "ok" /\ tB[p] = "ok" /\ cause[p] = "none"
            /\ (pc[p] = "done" /\ result[p] = "relay") =>
                 \/ cause[p] = "io" /\ (tA[p] = "err" \/ tB[p] = "err")
                 \/ cause[p] = "canceled" /\ cancelled[p])
    /\ [][\A p \in Procs :
            (pc[p] = "run" /\ pc'[p] = "done" /\ (tA[p] = "err" \/ tB[p] = "err"))
                => result'[p] = "relay"]_vars
    /\ \A p \in Procs :
        (pc[p] = "run" /\ ((Ended(tA[p]) /\ Ended(tB[p])) \/ cancelled[p]))
            ~> (pc[p] = "done")

\* One task ended with an error and the call returned "connection ends".
C11_Witness ==
    \E p \in Procs :
        /\ pc[p] = "done" /\ result[p] = "relay" /\ cause[p] = "io"
        /\ tA[p] = "ok" /\ tB[p] = "err" /\ ~cancelled[p]

\* C12: while no transport was ever created Close returns nil, and a Close
\* that finds a transport an earlier Close already closed returns nil too.
C12_CloseIdempotent ==
    /\ [](created = 0 => closeRes \in {"none", "nil"})
    /\ [][(cpc = "close" /\ cpc' = "idle" /\ csc \in closedBy)
            => closeRes' = "nil"]_vars

AllowList == {ParseAuthorizedKey(cfg[i]) : i \in 1..Len(cfg)} \ {0}

\* C13: once Init succeeded, the callback accepts the presented key exactly
\* when config.PublicKey holds no key at all or holds a key whose encoding
\* equals the presented key's; every other key gets the mismatch error.
C13_HostTrust ==
    verdict # "none" =>
        /\ initRes = "ok"
        /\ verdict \in {"accept", "mismatch"}
        /\ verdict = "accept" <=>
             \/ AllowList = {}
             \/ \E a \in AllowList : Marshal(a) = Marshal(presented)

\* A key matching the second of two allow-listed keys was accepted.
C13_Witness ==
    /\ verdict = "accept"
    /\ Len(keys) = 2
    /\ keys[1] # presented
    /\ keys[2] = presented

\* C14: no copy task of a session is still running once the session's
\* Process call has returned.
C14_NoTaskAfterReturn ==
    \A p \in Procs : pc[p] = "done" => tA[p] # "run" /\ tB[p] # "run"

\* C15: a call that has returned has no logical channel open on a live
\* transport.
C15_ChannelClosedAtReturn ==
    \A p \in Procs : (pc[p] = "done" /\ chan[p] # 0) => chan[p] \notin alive

\* C16: Client.client changes only in a step of a writer that holds the
\* mutex: a Process call in connect that publishes a new transport, or a
\* watcher that stores nil; a Close call never changes it, and it becomes
\* nil by no other step than the watcher's.
C16_WritesUnderLock ==
    [][client' # client =>
         /\ cpc' = cpc /\ closes' = closes
         /\ \/ \E p \in Procs :
                 /\ mutex = ByProc(p) /\ mutex' = ByProc(p)
                 /\ pc[p] = "handshake" /\ pc'[p] = "unlock"
                 /\ client' # 0
            \/ \E t \in Transports :
                 /\ mutex = ByWatcher(t)
                 /\ wpc[t] = "clear" /\ wpc'[t] = "done"
                 /\ client' = 0]_vars

\* A second transport was published under the lock after the watcher of the
\* first, which a Close call had closed, stored nil.
C16_Witness ==
    \E p \in Procs :
        /\ pc[p] = "unlock" /\ mutex = ByProc(p)
        /\ client = 2 /\ wpc[1] = "done" /\ closedBy = {1}

\* A step of the per-request part of Process: the channel open, a step of
\* the relay (copy task, timer) or the return from either.
PerRequestStep ==
    \/ chan' # chan
    \/ relayVars' # relayVars
    \/ \E p \in Procs : pc[p] \in {"dial", "relay", "run"} /\ pc'[p] # pc[p]

\* C17: no step of the per-request part of Process writes Client.client,
\* closes or creates a transport, touches the mutex or a watcher.
C17_RequestLeavesTransport ==
    [][PerRequestStep =>
         UNCHANGED <<client, alive, mutex, created, handshaken, wpc,
                     connects, handshakes, watchVars>>]_vars

\* A session was cancelled by its timer and returned; the transport it ran
\* on is still published and alive.
C17_Witness ==
    \E p \in Procs :
        /\ pc[p] = "done" /\ result[p] = "relay" /\ cause[p] = "canceled"
        /\ chan[p] = client /\ client \in alive

Watched == {t \in Transports : wpc[t] # "none"}
ClearedBy == {t \in Transports : wpc[t] = "done"}

\* C18: as many watchers were started as transports were created, one for
\* each created transport and none else (not for a failed connect, not for
\* a call that found a transport); and nil was stored by a watcher at most
\* once for each transport.
C18_OneWatcherPerTransport ==
    /\ spawned = created
    /\ handshaken = 1..created
    /\ Watched = handshaken
    /\ created <= handshakes
    /\ cleared = Cardinality(ClearedBy)
    /\ cleared <= created

\* Two calls that both read nil share the one transport and its one
\* watcher, which has stored nil once.
C18_Witness ==
    \E p, q \in Procs :
        /\ p # q /\ fastNil[p] /\ fastNil[q]
        /\ sc[p] = 1 /\ sc[q] = 1
        /\ created = 1 /\ spawned = 1 /\ cleared = 1

\* C19: a watcher that holds the mutex to store nil finds in Client.client
\* the transport it was started for, and stores nil over that one: never
\* over a transport created later.
C19_ClearsOwnTransport ==
    /\ [](\A t \in Transports : wpc[t] = "clear" => client = t)
    /\ [][\A t \in Transports :
            (wpc[t] = "clear" /\ wpc'[t] = "done") =>
                client = t /\ client' = 0]_vars

\* The watcher of the second transport is about to store nil, after the
\* first transport was closed by Close and replaced.
C19_Witness ==
    /\ wpc[1] = "done" /\ wpc[2] = "clear"
    /\ client = 2 /\ closedBy # {}

AfterClose(p) == clearedAtStart[p] \cap closedBy

\* C20: a transport that Close closed is dead and its watcher comes to
\* store nil, after which Client.client never holds it again and the mutex
\* is free; a call that finds nil under the lock starts one connect; and a
\* call started after that clear which acquired a transport holds one
\* created after the closed one, by a connect and handshake of its own time.
C20_CloseNotTerminal ==
    /\ \A t \in Transports : (t \in closedBy) ~> (wpc[t] = "done")
    /\ [](\A t \in closedBy : t \notin alive /\ (wpc[t] = "done" => client # t))
    /\ [][\A t \in closedBy :
            (wpc[t] = "clear" /\ wpc'[t] = "done") =>
                client' = 0 /\ mutex' = Free]_vars
    /\ [][\A p \in Procs :
            (AfterClose(p) # {} /\ pc[p] = "lock" /\ pc'[p] # "lock" /\ client = 0)
                => pc'[p] = "connect" /\ connects' = connects + 1]_vars
    /\ [](\A p \in Procs :
            (AfterClose(p) # {} /\ pc[p] \in {"unlock", "dial"}) =>
                /\ sc[p] # 0 /\ sc[p] \in handshaken
                /\ \A t \in AfterClose(p) : sc[p] > t
                /\ connects >= sc[p] /\ handshakes >= sc[p])

\* A call started after the watcher cleared the transport Close had closed
\* holds the second transport, live and published, made by the second
\* connect and the second handshake.
C20_Witness ==
    \E p \in Procs :
        /\ AfterClose(p) = {1} /\ pc[p] = "dial"
        /\ sc[p] = 2 /\ client = 2 /\ 2 \in alive
        /\ connects = 2 /\ handshakes = 2
====
